---- MODULE Spec2Model ----
(***************************************************************************)
(* mriseqplot: the Sequence object of mriseqplot/core.py (channel buffers  *)
(* on a shared time grid, add_element, add_annotation, plot_scheme) and    *)
(* the baseline path builder of mriseqplot/plot.py.                        *)
(*                                                                         *)
(* Numbers.  A sample is a float.  The model keeps the integers as the     *)
(* finite floats and one extra value, NaN, for the float not-a-number,     *)
(* with the IEEE rules numpy applies: NaN + x = NaN, NaN * x = NaN,        *)
(* NaN == x is false, NaN is truthy, and Python's min/max skip a NaN       *)
(* second argument.  The y-limits are kept in hundredths (the padding     *)
(* factor is 1.1 = 110/100).                                               *)
(*                                                                         *)
(* Arrays.  The time grid has shape (N, 1) as in the examples              *)
(* (np.linspace(...)[:, None]); a buffer has shape (N, K) and is a         *)
(* sequence of N rows, each a sequence of K samples.                       *)
(***************************************************************************)
EXTENDS Integers, Sequences, FiniteSets, TLC

VARIABLES t, channels, anno, axes_styles, order, last, log, fig,
          path_in, path_out, trap_in, trap_out

vars == <<t, channels, anno, axes_styles, order, last, log, fig,
          path_in, path_out, trap_in, trap_out>>

seqvars == <<t, channels, anno, axes_styles, order, last, log, fig>>

(* ------------------------------ bounds --------------------------------- *)

\* length N of the time grid
GridLen == 5

\* number of add_element and add_annotation calls in one run
MaxCalls == 2

(* ------------------------------ floats --------------------------------- *)

\* the float not-a-number (np.nan), kept apart from every finite sample
NaN == 1000

IsNaN(x) == x = NaN

\* x + y on floats
FAdd(x, y) == IF IsNaN(x) \/ IsNaN(y) THEN NaN ELSE x + y

\* x * y on floats
FMul(x, y) == IF IsNaN(x) \/ IsNaN(y) THEN NaN ELSE x * y

\* bool(x) of a float, as np.logical_and takes it: everything but 0, NaN included
Truthy(x) == x # 0

\* x == 0 on floats (false for NaN)
IsZero(x) == x = 0

\* the grid positions
Idx == 1..GridLen

\* the largest and the smallest of a non-empty set of numbers
MaxOf(S) == CHOOSE m \in S : \A x \in S : x <= m
MinOf(S) == CHOOSE m \in S : \A x \in S : m <= x

(* ------------------------------ arrays --------------------------------- *)

\* K of an array of shape (N, K)
Width(a) == Len(a[1])

\* numpy broadcasting of (N, K1) against (N, K2): equal, or one of them 1
Broadcastable(a, b) == Width(a) = Width(b) \/ Width(a) = 1 \/ Width(b) = 1

BroadcastWidth(a, b) == IF Width(a) >= Width(b) THEN Width(a) ELSE Width(b)

\* a broadcast that repeats the first column whatever the width
AtFirst(a, i, k) == a[i][1]

\* the sample of a at (i, k) once a is broadcast to a wider shape
At(a, i, k) == IF Width(a) = 1 THEN a[i][1] ELSE a[i][k]

\* a buffer that starts NaN-filled
nan_like(grid) == [i \in 1..Len(grid) |-> <<NaN>>]

\* np.zeros_like(t) for the (N, 1) grid
zeros_like(grid) == [i \in 1..Len(grid) |-> <<0>>]

(* --------------------------- Sequence.__init__ ------------------------- *)

\* the channel lists a Sequence is constructed with
ChannelLists == { <<"RF">>, <<"RF", "GZ">> }

\* the channel names a call may pass; "GZ" is unknown to the one-channel sequence
Names == {"RF", "GZ"}

Range(s) == {s[i] : i \in 1..Len(s)}

\* style.py: the one field of SeqStyle plot_scheme branches on
SeqStyle == [axes_overlayed |-> TRUE]

NoCall == [op |-> "none", name |-> "", cb |-> <<>>, ampl |-> <<>>, unit |-> <<>>,
           before |-> <<>>, raised |-> "none", warned |-> FALSE]

NoLayout == [given |-> FALSE, rows |-> <<>>]

NoFig == [called |-> FALSE, ncalls |-> 0, layout |-> NoLayout, raised |-> "none",
          nrows |-> 0,
          labels |-> <<>>, ylim |-> <<>>, baseline |-> <<>>]

\* Sequence(t, names): the fields __init__ sets
SequenceInit(grid, names) ==
    /\ t = grid
    /\ order = names
    /\ channels = [c \in Range(names) |-> zeros_like(grid)]
    /\ axes_styles = [c \in Range(names) |-> SeqStyle]
    /\ anno = [c \in Range(names) |-> <<>>]

\* the calls made so far that count against the bound
NCalls == Len(log)

(* --------------------------- add_element ------------------------------- *)

\* The callbacks a caller passes, by the unit waveform they return on the
\* grid: 1 on the samples lo..hi and bg (0, or NaN) on every other sample.
Callbacks ==
    { [lo |-> 1, hi |-> 2, bg |-> 0],
      [lo |-> 3, hi |-> 4, bg |-> 0],
      [lo |-> 2, hi |-> 3, bg |-> NaN] }

\* callback(self.t, **kwargs): shape (N, 1)
callback(cb, grid) ==
    [i \in 1..Len(grid) |-> IF cb.lo <= grid[i] /\ grid[i] <= cb.hi THEN 1 ELSE cb.bg]

\* ampl: a scalar, or a row vector of shape (1, K)
Ampls == { <<1>>, <<-1, 2>>, <<1, 2, 3>> }

\* the (callback, ampl) pairs of the calls: every callback with one amplitude,
\* and the first callback with two and with three amplitudes as well
Elements ==
    { [cb |-> cb, ampl |-> <<1>>] : cb \in Callbacks }
    \cup { [cb |-> [lo |-> 1, hi |-> 2, bg |-> 0], ampl |-> a] : a \in Ampls }

\* core.py:59  unit = ampl * callback(self.t, **kwargs), shape (N, K)
Unit(cb, ampl, grid) ==
    [i \in 1..Len(grid) |-> [k \in 1..Len(ampl) |-> FMul(ampl[k], callback(cb, grid)[i])]]

\* an overlap test that never fires
OverlapNever(buf, unit) == FALSE

\* an overlap test with .all() for .any()
OverlapAll(buf, unit) ==
    \A i \in 1..Len(buf) : \A k \in 1..BroadcastWidth(buf, unit) :
        Truthy(At(buf, i, k)) /\ Truthy(At(unit, i, k))

\* core.py:60-61  np.logical_and(buffer, unit).any()
Overlap(buf, unit) ==
    \E i \in 1..Len(buf) : \E k \in 1..BroadcastWidth(buf, unit) :
        Truthy(At(buf, i, k)) /\ Truthy(At(unit, i, k))

\* a sum that skips NaN unless both operands are NaN
NanSum(x, y) == IF IsNaN(x) THEN y ELSE IF IsNaN(y) THEN x ELSE x + y

AccumulateNanSum(buf, unit) ==
    [i \in 1..Len(buf) |->
        [k \in 1..BroadcastWidth(buf, unit) |-> NanSum(At(buf, i, k), At(unit, i, k))]]

\* an accumulation where a nonzero new sample replaces the old one
AccumulateOverwrite(buf, unit) ==
    [i \in 1..Len(buf) |->
        [k \in 1..BroadcastWidth(buf, unit) |->
            IF Truthy(At(unit, i, k)) THEN At(unit, i, k) ELSE At(buf, i, k)]]

\* core.py:63  buffer + unit
Accumulate(buf, unit) ==
    [i \in 1..Len(buf) |->
        [k \in 1..BroadcastWidth(buf, unit) |-> FAdd(At(buf, i, k), At(unit, i, k))]]

\* the record of a call: its arguments, the buffers before it, its outcome
Call(op, channel_name, cb, ampl, unit, raised, warned) ==
    [op |-> op, name |-> channel_name, cb |-> cb, ampl |-> ampl, unit |-> unit,
     before |-> channels, raised |-> raised, warned |-> warned]

\* an add_element that ignores a name that is no channel
add_element_lenient(channel_name, cb, ampl) ==
    LET unit == Unit(cb, ampl, t) IN
    /\ NCalls < MaxCalls
    /\ IF channel_name \notin DOMAIN channels \/ ~Broadcastable(channels[channel_name], unit)
       THEN /\ last' = Call("add_element", channel_name, cb, ampl, unit, "none", FALSE)
            /\ channels' = channels
       ELSE /\ last' = Call("add_element", channel_name, cb, ampl, unit, "none",
                            Overlap(channels[channel_name], unit))
            /\ channels' = [channels EXCEPT
                               ![channel_name] = Accumulate(channels[channel_name], unit)]
    /\ log' = Append(log, [op |-> "add_element", name |-> channel_name,
                           unit |-> unit, raised |-> last'.raised])
    /\ UNCHANGED <<t, anno, axes_styles, order, fig, path_in, path_out,
                 trap_in, trap_out>>

\* an add_element on channels that all share one array
add_element_aliased(channel_name, cb, ampl) ==
    LET unit == Unit(cb, ampl, t) IN
    /\ NCalls < MaxCalls
    /\ IF channel_name \notin DOMAIN channels
       THEN /\ last' = Call("add_element", channel_name, cb, ampl, unit, "KeyError", FALSE)
            /\ channels' = channels
       ELSE IF ~Broadcastable(channels[channel_name], unit)
       THEN /\ last' = Call("add_element", channel_name, cb, ampl, unit, "ValueError", FALSE)
            /\ channels' = channels
       ELSE /\ last' = Call("add_element", channel_name, cb, ampl, unit, "none",
                            Overlap(channels[channel_name], unit))
            /\ channels' = [c \in DOMAIN channels |->
                               Accumulate(channels[channel_name], unit)]
    /\ log' = Append(log, [op |-> "add_element", name |-> channel_name,
                           unit |-> unit, raised |-> last'.raised])
    /\ UNCHANGED <<t, anno, axes_styles, order, fig, path_in, path_out,
                 trap_in, trap_out>>

add_element(channel_name, cb, ampl) ==
    LET unit == Unit(cb, ampl, t) IN
    /\ NCalls < MaxCalls
    /\ IF channel_name \notin DOMAIN channels
       THEN \* self.channels[channel_name] raises KeyError at line 60
            /\ last' = Call("add_element", channel_name, cb, ampl, unit, "KeyError", FALSE)
            /\ channels' = channels
       ELSE IF ~Broadcastable(channels[channel_name], unit)
       THEN \* np.logical_and cannot broadcast (N, K1) with (N, K2): ValueError
            /\ last' = Call("add_element", channel_name, cb, ampl, unit, "ValueError", FALSE)
            /\ channels' = channels
       ELSE /\ last' = Call("add_element", channel_name, cb, ampl, unit, "none",
                            Overlap(channels[channel_name], unit))
            /\ channels' = [channels EXCEPT
                               ![channel_name] = Accumulate(channels[channel_name], unit)]
    /\ log' = Append(log, [op |-> "add_element", name |-> channel_name,
                           unit |-> unit, raised |-> last'.raised])
    /\ UNCHANGED <<t, anno, axes_styles, order, fig, path_in, path_out,
                 trap_in, trap_out>>

(* --------------------------- add_annotation ---------------------------- *)

\* The annotations a caller passes: ampl is a float (kept as a one-element
\* list, the form _format_axes_data turns it into) or a list of floats.
AnnoArgs ==
    { [t |-> <<2>>, ampl |-> <<3>>, text |-> "Echo"],
      [t |-> <<1, 3>>, ampl |-> <<-4, -4>>, text |-> "TE"] }

add_annotation(channel_name, a) ==
    /\ NCalls < MaxCalls
    /\ IF channel_name \notin DOMAIN anno
       THEN \* self.anno[channel_name] raises KeyError
            /\ last' = Call("add_annotation", channel_name, <<>>, a.ampl, <<>>,
                             "KeyError", FALSE)
            /\ anno' = anno
       ELSE /\ last' = Call("add_annotation", channel_name, <<>>, a.ampl, <<>>,
                             "none", FALSE)
            /\ anno' = [anno EXCEPT ![channel_name] =
                           Append(@, [t |-> a.t, ampl |-> a.ampl, text |-> a.text,
                                      arrow |-> "None", style |-> "None"])]
    /\ log' = Append(log, [op |-> "add_annotation", name |-> channel_name,
                           unit |-> <<>>, raised |-> last'.raised])
    /\ UNCHANGED <<t, channels, axes_styles, order, fig, path_in, path_out,
                 trap_in, trap_out>>

(* --------------------------- _format_axes_data ------------------------- *)

\* padding_factor = 1.1, in hundredths
PaddingHundredths == 110

\* np.min / np.max of an array: NaN as soon as one sample is NaN
Samples(sig) == {sig[i][k] : i \in 1..Len(sig), k \in 1..Width(sig)}

NpMin(sig) == IF NaN \in Samples(sig) THEN NaN ELSE MinOf(Samples(sig))

NpMax(sig) == IF NaN \in Samples(sig) THEN NaN ELSE MaxOf(Samples(sig))

\* Python's min(a, b) / max(a, b): b only if b < a (b > a), never when b is NaN
PyMin(a, b) == IF ~IsNaN(a) /\ ~IsNaN(b) /\ b < a THEN b ELSE a

PyMax(a, b) == IF ~IsNaN(a) /\ ~IsNaN(b) /\ b > a THEN b ELSE a

\* padding_factor * x, in hundredths
Pad(x) == IF IsNaN(x) THEN NaN ELSE PaddingHundredths * x

\* core.py:71-73  the loop over self.channels.values(), from channel i on
RECURSIVE YlimSignals(_, _, _, _)
YlimSignals(chans, names, i, ylim) ==
    IF i > Len(names) THEN ylim
    ELSE YlimSignals(chans, names, i + 1,
                     << PyMin(ylim[1], Pad(NpMin(chans[names[i]]))),
                        PyMax(ylim[2], Pad(NpMax(chans[names[i]]))) >>)

\* every annotation of the sequence, channel by channel
RECURSIVE AllAnno(_, _, _)
AllAnno(an, names, i) ==
    IF i > Len(names) THEN <<>> ELSE an[names[i]] \o AllAnno(an, names, i + 1)

\* core.py:74-80  the loop over the annotations, from item j on
RECURSIVE YlimAnno(_, _, _)
YlimAnno(items, j, ylim) ==
    IF j > Len(items) THEN ylim
    ELSE YlimAnno(items, j + 1,
                  << PyMin(ylim[1], 100 * MinOf(Range(items[j].ampl))),
                     PyMax(ylim[2], 100 * MaxOf(Range(items[j].ampl))) >>)

\* core.py:70-80  the y-limit, in hundredths
Ylim(chans, an, names) ==
    YlimAnno(AllAnno(an, names, 1), 1, YlimSignals(chans, names, 1, <<0, 0>>))

Min2(a, b) == IF a <= b THEN a ELSE b

\* core.py:82  zip(axes, self.axes_styles.values(), labels) stops at the shortest
ZipLen(naxes, nstyles, nlabels) == Min2(naxes, Min2(nstyles, nlabels))

\* core.py:83-90  the label of each row: its layout key for the rows the zip
\* reaches, the backend's empty label for the others
RowLabels(map, nstyles) ==
    [r \in 1..Len(map) |->
        IF r <= ZipLen(Len(map), nstyles, Len(map)) THEN map[r].label ELSE ""]

\* core.py:95  ax.set_ylim(lo, hi): the backend does not keep identical limits,
\* it warns and stores the expanded range; lo <= 0 <= hi (core.py:70), so
\* identical limits are (0, 0), which it expands to (-0.05, 0.05)
set_ylim(lo, hi) == IF lo = hi THEN <<-5, 5>> ELSE <<lo, hi>>

\* rows that do not share their y-axis: only the rows the zip reaches get the limit
RowYlimsUnshared(map, nstyles, ylim) ==
    [r \in 1..Len(map) |->
        IF r <= ZipLen(Len(map), nstyles, Len(map))
        THEN set_ylim(ylim[1], ylim[2]) ELSE <<0, 100>>]

\* core.py:95 with sharey=True (core.py:170): a y-limit set on one row is the
\* y-limit of every row; the backend's default is (0, 1)
RowYlims(map, nstyles, ylim) ==
    [r \in 1..Len(map) |->
        IF ZipLen(Len(map), nstyles, Len(map)) >= 1
        THEN set_ylim(ylim[1], ylim[2]) ELSE <<0, 100>>]

(* --------------------------- _plot_channel ----------------------------- *)

IndexSeq(n) == [i \in 1..n |-> i]

\* signal[:, dim]
Column(sig, k) == [i \in 1..Len(sig) |-> sig[i][k]]

\* core.py:123  np.argwhere(plt_signal == 0): the indices of the zero samples
ZeroInd(col) == SelectSeq(IndexSeq(Len(col)), LAMBDA i : IsZero(col[i]))

\* core.py:124-126  the positions, in the list of zeros, of the zeros next to a
\* gap: the last zero before it (left) and the first zero after it (right)
EdgesLeft(rem) == {r \in 1..(Len(rem) - 1) : rem[r + 1] - rem[r] > 1}

EdgesRight(rem) == {r + 1 : r \in EdgesLeft(rem)}

\* core.py:127-129  np.delete: the zeros that are dropped from the line
RemoveInd(col) ==
    LET rem == ZeroInd(col) IN
    {rem[r] : r \in (1..Len(rem)) \ (EdgesLeft(rem) \cup EdgesRight(rem))}

\* core.py:132-133  the time values left on the line ax.plot draws
LineXData(col, grid) ==
    LET kept == SelectSeq(IndexSeq(Len(col)), LAMBDA i : i \notin RemoveInd(col))
    IN  [l \in 1..Len(kept) |-> grid[kept[l]]]

\* core.py:118-153  the x data of the lines one channel adds to a row
ChannelLines(sig, grid) ==
    [k \in 1..Width(sig) |-> LineXData(Column(sig, k), grid)]

\* core.py:177-187  the lines on a row, channel after channel
RECURSIVE RowLines(_, _, _, _)
RowLines(chans, names, i, grid) ==
    IF i > Len(names) THEN <<>>
    ELSE ChannelLines(chans[names[i]], grid) \o RowLines(chans, names, i + 1, grid)

(* --------------------------- plot_scheme: the x-axis ------------------- *)

\* core.py:195-196  the grid indices whose time value is on the line
LineInd(x_data, grid) ==
    SelectSeq(IndexSeq(Len(grid)),
              LAMBDA i : \E l \in 1..Len(x_data) : x_data[l] = grid[i])

\* every index of the line, its two end points included
InteriorWithEnds(ind) == {ind[j] : j \in 1..Len(ind)}

\* core.py:197  ind[1:-1]
Interior(ind) == {ind[j] : j \in 2..(Len(ind) - 1)}

\* core.py:192-200  the grid points set to -1: inside some line of the row
Sections(lines, grid) ==
    UNION {Interior(LineInd(lines[l], grid)) : l \in 1..Len(lines)}

\* core.py:201-218  the runs of grid points the x-axis is drawn through
RECURSIVE AxisRuns(_, _, _, _, _)
AxisRuns(sections, n, iPoint, cur_section, drawn) ==
    IF iPoint > n THEN drawn
    ELSE LET cur == IF iPoint \notin sections THEN Append(cur_section, iPoint)
                    ELSE cur_section
         IN  IF (iPoint \in sections \/ iPoint = n) /\ Len(cur) > 0
             THEN AxisRuns(sections, n, iPoint + 1, <<>>, Append(drawn, cur))
             ELSE AxisRuns(sections, n, iPoint + 1, cur, drawn)

\* core.py:189-227  the x-axis of one row: drawn in runs where no line is, or
\* from end to end when the style does not overlay it
RowAxis(chans, styles, names, grid) ==
    IF styles[names[Len(names)]].axes_overlayed
    THEN AxisRuns(Sections(RowLines(chans, names, 1, grid), grid), Len(grid), 1,
                  <<>>, <<>>)
    ELSE << <<1, Len(grid)>> >>

(* --------------------------- plot_scheme ------------------------------- *)

\* The ax2channel arguments a caller passes: None, or an ordered mapping from a
\* row label to a channel name or a list of channel names.
Layouts ==
    { [given |-> FALSE, rows |-> <<>>],
      [given |-> TRUE, rows |-> << [label |-> "A", channels |-> <<"RF">>] >>],
      [given |-> TRUE, rows |-> << [label |-> "A", channels |-> <<"RF">>],
                                   [label |-> "B", channels |-> <<"RF">>] >>],
      [given |-> TRUE, rows |-> << [label |-> "A", channels |-> <<"RF">>],
                                   [label |-> "B", channels |-> <<"XX">>] >>],
      [given |-> TRUE, rows |-> << [label |-> "A", channels |-> <<"RF">>],
                                   [label |-> "B", channels |-> <<"GZ">>],
                                   [label |-> "C", channels |-> <<"RF", "GZ">>] >>] }

\* core.py:166-168  the trivial map when no layout is given
Ax2Channel(layout, names) ==
    IF layout.given THEN layout.rows
    ELSE [i \in 1..Len(names) |-> [label |-> names[i], channels |-> <<names[i]>>]]

\* core.py:170-175  plt.subplots gives one Axes for one row and an array of Axes
\* otherwise; the workaround wraps it in a list when the sequence has one
\* channel; _format_axes_base then iterates over the result.
AxesError(nrows, nchannels) ==
    IF nrows = 1 /\ nchannels # 1 THEN "TypeError"          \* an Axes is not iterable
    ELSE IF nrows # 1 /\ nchannels = 1 THEN "AttributeError" \* the item is the array
    ELSE "none"

\* core.py:181/186  self.channels[name_channel] for a name that is no channel
RowsError(map, chans) ==
    IF \E r \in 1..Len(map) : \E i \in 1..Len(map[r].channels) :
           map[r].channels[i] \notin DOMAIN chans
    THEN "KeyError" ELSE "none"

\* core.py:156-230  what plot_scheme returns, or the exception it raises
PlotResult(layout, chans, an, styles, names, grid) ==
    LET map == Ax2Channel(layout, names)
        nrows == Len(map)
        nstyles == Cardinality(DOMAIN styles)
    IN  IF AxesError(nrows, Cardinality(DOMAIN chans)) # "none"
        THEN [NoFig EXCEPT !.called = TRUE, !.ncalls = NCalls, !.layout = layout,
                           !.raised = AxesError(nrows, Cardinality(DOMAIN chans))]
        ELSE IF RowsError(map, chans) # "none"
        THEN [NoFig EXCEPT !.called = TRUE, !.ncalls = NCalls, !.layout = layout,
                           !.raised = "KeyError"]
        ELSE [called |-> TRUE,
              ncalls |-> NCalls,
              layout |-> layout,
              raised |-> "none",
              nrows |-> nrows,
              labels |-> RowLabels(map, nstyles),
              ylim |-> RowYlims(map, nstyles, Ylim(chans, an, names)),
              baseline |-> [r \in 1..nrows |->
                               RowAxis(chans, styles, map[r].channels, grid)]]

plot_scheme(layout) ==
    /\ fig' = PlotResult(layout, channels, anno, axes_styles, order, t)
    /\ UNCHANGED <<t, channels, anno, axes_styles, order, last, log, path_in, path_out,
                 trap_in, trap_out>>

(* --------------------------- _time_axis_as_disconected_path ------------ *)

NoPath == [called |-> FALSE, raised |-> "none", verts |-> <<>>, codes |-> <<>>]

\* np.broadcast_arrays(*channels): every width is 1 or the largest width
WidestOf(chs) == MaxOf({Width(chs[c]) : c \in 1..Len(chs)})

AllBroadcastable(chs) ==
    \A c \in 1..Len(chs) : Width(chs[c]) = 1 \/ Width(chs[c]) = WidestOf(chs)

\* plot.py:108  row i of np.concatenate(np.broadcast_arrays(*channels), axis=1)
RECURSIVE StackRow(_, _, _, _)
StackRow(chs, c, i, w) ==
    IF c > Len(chs) THEN <<>>
    ELSE [k \in 1..w |-> At(chs[c], i, k)] \o StackRow(chs, c + 1, i, w)

\* a mask with .any() for .all(): one NaN column is enough
AllNanAny(chs) ==
    [i \in 1..Len(chs[1]) |->
        LET row == StackRow(chs, 1, i, WidestOf(chs))
        IN  \E k \in 1..Len(row) : IsNaN(row[k])]

\* plot.py:109  np.isnan(tmp_stack).all(axis=1)
AllNan(chs) ==
    [i \in 1..Len(chs[1]) |->
        LET row == StackRow(chs, 1, i, WidestOf(chs))
        IN  \A k \in 1..Len(row) : IsNaN(row[k])]

\* plot.py:110-113  the vertices (x as the numerator of i/(n-1)) and the codes
\* of the path, after the leading MOVETO to (0, 0)
PathCodes(all_nan) ==
    <<"MOVETO">> \o [i \in 1..Len(all_nan) |-> IF all_nan[i] THEN "LINETO" ELSE "MOVETO"]

PathVerts(all_nan) == <<0>> \o [i \in 1..Len(all_nan) |-> i - 1]

\* plot.py:101-114
time_axis_as_disconected_path(chs) ==
    IF ~AllBroadcastable(chs)
    THEN [NoPath EXCEPT !.called = TRUE, !.raised = "ValueError"]
    ELSE [called |-> TRUE, raised |-> "none",
          verts |-> PathVerts(AllNan(chs)), codes |-> PathCodes(AllNan(chs))]

\* The arrays handed to the path builder: columns on the grid that are NaN
\* outside one run of samples lo..hi (or NaN everywhere, or a zero-filled
\* buffer with one run), put side by side into arrays of shape (N, K).
Run(lo, hi, val, bg) == [i \in Idx |-> IF lo <= i /\ i <= hi THEN val ELSE bg]

PathColumns ==
    { Run(1, 0, 1, NaN) }
    \cup { Run(lo, hi, 1, NaN) : lo \in Idx, hi \in Idx }
    \cup { Run(2, 3, 0, NaN), Run(2, 3, 1, 0) }

Array1(col) == [i \in Idx |-> <<col[i]>>]

Array2(c1, c2) == [i \in Idx |-> <<c1[i], c2[i]>>]

Array3(c1, c2, c3) == [i \in Idx |-> <<c1[i], c2[i], c3[i]>>]

PathArrays ==
    { Array1(c) : c \in PathColumns }
    \cup { Array2(c1, c2) : c1 \in PathColumns, c2 \in PathColumns }
    \cup { Array3(Run(1, 0, 1, NaN), Run(1, 1, 1, NaN), Run(2, 2, 1, NaN)) }

PathInputs ==
    { <<a>> : a \in PathArrays } \cup { <<a, b>> : a \in PathArrays, b \in PathArrays }

TimeAxisPath ==
    /\ ~path_out.called
    /\ path_out' = time_axis_as_disconected_path(path_in)
    /\ UNCHANGED <<seqvars, path_in, trap_in, trap_out>>

(* --------------------------- shapes.trapezoid -------------------------- *)

\* A sample of the trapezoid is a fraction <<numerator, denominator>>: the
\* ramps divide by dt_ramp, and the fraction keeps that division exact.
NoTrapArgs == [t_start |-> 0, t_flat_out |-> 0, t_ramp_down |-> 0]

NoTrap == [called |-> FALSE, x |-> <<>>]

\* a ramp down without the final + 1
trapezoid_unshifted(grid, t_start, t_flat_out, t_ramp_down) ==
    LET dt_ramp == t_flat_out - t_start IN
    [i \in 1..Len(grid) |->
        IF t_ramp_down < grid[i] /\ grid[i] <= t_ramp_down + dt_ramp
        THEN <<t_ramp_down - grid[i], dt_ramp>>
        ELSE IF t_flat_out < grid[i] /\ grid[i] <= t_ramp_down
        THEN <<1, 1>>
        ELSE IF t_start < grid[i] /\ grid[i] <= t_flat_out
        THEN <<grid[i] - t_start, dt_ramp>>
        ELSE <<0, 1>>]

\* shapes.py:42-50  x starts as zeros and is assigned on the ramp up, then on
\* the flat top, then on the ramp down, so a later mask wins where two overlap;
\* (t_ramp_down - t) / dt_ramp + 1 is ((t_ramp_down - t) + dt_ramp) / dt_ramp
trapezoid(grid, t_start, t_flat_out, t_ramp_down) ==
    LET dt_ramp == t_flat_out - t_start IN
    [i \in 1..Len(grid) |->
        IF t_ramp_down < grid[i] /\ grid[i] <= t_ramp_down + dt_ramp
        THEN <<(t_ramp_down - grid[i]) + dt_ramp, dt_ramp>>
        ELSE IF t_flat_out < grid[i] /\ grid[i] <= t_ramp_down
        THEN <<1, 1>>
        ELSE IF t_start < grid[i] /\ grid[i] <= t_flat_out
        THEN <<grid[i] - t_start, dt_ramp>>
        ELSE <<0, 1>>]

\* the keyword arguments of a trapezoid call: any three times on or next to the grid
TrapArgs ==
    [t_start : 0..GridLen, t_flat_out : 0..GridLen, t_ramp_down : 0..GridLen]

Trapezoid ==
    /\ ~trap_out.called
    /\ trap_out' = [called |-> TRUE,
                    x |-> trapezoid(t, trap_in.t_start, trap_in.t_flat_out,
                                    trap_in.t_ramp_down)]
    /\ UNCHANGED <<seqvars, path_in, path_out, trap_in>>

(* --------------------------- specifications ---------------------------- *)

TimeGrid == IndexSeq(GridLen)

\* A Sequence after construction, and any of its methods called on it.
Init ==
    /\ \E names \in ChannelLists : SequenceInit(TimeGrid, names)
    /\ last = NoCall
    /\ log = <<>>
    /\ fig = NoFig
    /\ path_in = <<>>
    /\ path_out = NoPath
    /\ trap_in = NoTrapArgs
    /\ trap_out = NoTrap

AddElement == \E c \in Names, e \in Elements : add_element(c, e.cb, e.ampl)

AddAnnotation == \E c \in Names, a \in AnnoArgs : add_annotation(c, a)

PlotScheme == \E l \in Layouts : plot_scheme(l)

Next == AddElement \/ AddAnnotation \/ PlotScheme

Spec == Init /\ [][Next]_vars

\* The path builder applied to a list of arrays.
InitAxis ==
    /\ SequenceInit(TimeGrid, <<"RF">>)
    /\ last = NoCall
    /\ log = <<>>
    /\ fig = NoFig
    /\ path_in \in PathInputs
    /\ path_out = NoPath
    /\ trap_in = NoTrapArgs
    /\ trap_out = NoTrap

NextAxis == TimeAxisPath

SpecAxis == InitAxis /\ [][NextAxis]_vars

\* The trapezoid generator applied to the time grid.
InitTrap ==
    /\ SequenceInit(TimeGrid, <<"RF">>)
    /\ last = NoCall
    /\ log = <<>>
    /\ fig = NoFig
    /\ path_in = <<>>
    /\ path_out = NoPath
    /\ trap_in \in TrapArgs
    /\ trap_out = NoTrap

NextTrap == Trapezoid

SpecTrap == InitTrap /\ [][NextTrap]_vars

(* ======================= accumulation: C1 - C7 ========================= *)

\* the last call was an add_element that returned
Added == last.op = "add_element" /\ last.raised = "none"

\* the samples the last add_element combined at (i, k), and the result there
Old(i, k) == At(last.before[last.name], i, k)

New(i, k) == At(last.unit, i, k)

Res(i, k) == channels[last.name][i][k]

Cells == {<<i, k>> : i \in Idx,
                     k \in 1..BroadcastWidth(last.before[last.name], last.unit)}

IsReal(x) == ~IsNaN(x)

\* C1 as stated: after add_element, every sample is the absent-aware sum of the
\* old and the new sample, absent (NaN) + absent = absent, absent + x = x,
\* x + y = x + y.
C1_AbsentAwareSum ==
    Added => \A c \in Cells :
        /\ (IsNaN(Old(c[1], c[2])) /\ IsNaN(New(c[1], c[2]))) => IsNaN(Res(c[1], c[2]))
        /\ (IsNaN(Old(c[1], c[2])) /\ IsReal(New(c[1], c[2])))
               => Res(c[1], c[2]) = New(c[1], c[2])
        /\ (IsReal(Old(c[1], c[2])) /\ IsNaN(New(c[1], c[2])))
               => Res(c[1], c[2]) = Old(c[1], c[2])
        /\ (IsReal(Old(c[1], c[2])) /\ IsReal(New(c[1], c[2])))
               => Res(c[1], c[2]) = Old(c[1], c[2]) + New(c[1], c[2])

\* C1 amended: after add_element, the buffer has the broadcast shape and every
\* sample is the plain float sum of the old and the new sample: x + y for
\* numbers (0, the value of an untouched sample, included), NaN when either is NaN.
C1_PlainSum ==
    Added =>
        /\ Len(channels[last.name]) = GridLen
        /\ \A i \in Idx : Len(channels[last.name][i])
                              = BroadcastWidth(last.before[last.name], last.unit)
        /\ \A c \in Cells :
              Res(c[1], c[2]) =
                  IF IsNaN(Old(c[1], c[2])) \/ IsNaN(New(c[1], c[2])) THEN NaN
                  ELSE Old(c[1], c[2]) + New(c[1], c[2])

\* C1 witness: an add_element onto a buffer that holds a NaN and a nonzero
\* number, with a new waveform that has a number where the NaN is
C1_Witness ==
    /\ Added
    /\ \E c \in Cells : IsNaN(Old(c[1], c[2])) /\ IsReal(New(c[1], c[2]))
                        /\ New(c[1], c[2]) # 0
    /\ \E c \in Cells : IsReal(Old(c[1], c[2])) /\ Old(c[1], c[2]) # 0
                        /\ IsReal(New(c[1], c[2])) /\ New(c[1], c[2]) # 0

\* the channels no add_element call has targeted
Targeted(c) == \E j \in 1..Len(log) : log[j].op = "add_element" /\ log[j].name = c

\* C2 as stated: every sample of a channel no add_element has targeted is the
\* absent value (NaN), not zero.
C2_UntouchedAbsent ==
    \A c \in DOMAIN channels : ~Targeted(c) =>
        \A i \in Idx : \A k \in 1..Width(channels[c]) : IsNaN(channels[c][i][k])

\* C2 amended: every channel no add_element has targeted has shape (N, 1) and
\* every sample of it is the number zero.
C2_UntouchedZero ==
    \A c \in DOMAIN channels : ~Targeted(c) =>
        /\ Len(channels[c]) = GridLen
        /\ \A i \in Idx : channels[c][i] = <<0>>

\* C2 witness: one channel has been added to and plotted, the other not targeted
C2_Witness ==
    /\ Added
    /\ fig.called /\ fig.raised = "none"
    /\ \E c \in DOMAIN channels : ~Targeted(c)
    /\ \E c \in DOMAIN channels : Targeted(c) /\ channels[c] # zeros_like(t)

\* the cells where the last add_element met a nonzero number with a nonzero number
Overlapping == {c \in Cells : /\ IsReal(Old(c[1], c[2])) /\ Old(c[1], c[2]) # 0
                              /\ IsReal(New(c[1], c[2])) /\ New(c[1], c[2]) # 0}

\* the last call was an add_element on a channel whose buffer broadcasts with
\* the new waveform
Combined ==
    /\ last.op = "add_element"
    /\ last.name \in DOMAIN last.before
    /\ Broadcastable(last.before[last.name], last.unit)

\* C3 as stated: an add_element that overlaps values already on the channel
\* raises nothing, warns nothing, and leaves the sum at the overlapping cells.
C3_SilentSum ==
    (Combined /\ Overlapping # {}) =>
        /\ last.raised = "none"
        /\ ~last.warned
        /\ \A c \in Overlapping : Res(c[1], c[2]) = Old(c[1], c[2]) + New(c[1], c[2])

\* C3 amended: an add_element that overlaps values already on the channel (and
\* broadcasts with the buffer) raises nothing and leaves the sum at the
\* overlapping cells, and it does emit a warning.
C3_WarnedSum ==
    (Combined /\ Overlapping # {}) =>
        /\ last.raised = "none"
        /\ last.warned
        /\ \A c \in Overlapping : Res(c[1], c[2]) = Old(c[1], c[2]) + New(c[1], c[2])

\* C3 witness: an overlapping add_element whose sum differs from both operands
C3_Witness ==
    /\ Combined /\ Overlapping # {}
    /\ \E c \in Overlapping : Res(c[1], c[2]) # Old(c[1], c[2])
                              /\ Res(c[1], c[2]) # New(c[1], c[2])

\* C4: add_element warns exactly when some cell has a nonzero old and a nonzero
\* new sample, and the waveform is added whether it warns or not; a call that
\* raises does not warn.
C4_WarnIffOverlap ==
    /\ Added =>
          /\ last.warned <=> \E c \in Cells : Old(c[1], c[2]) # 0 /\ New(c[1], c[2]) # 0
          /\ \A c \in Cells : (IsReal(Old(c[1], c[2])) /\ IsReal(New(c[1], c[2])))
                                  => Res(c[1], c[2]) - Old(c[1], c[2]) = New(c[1], c[2])
    /\ (last.op = "add_element" /\ last.raised # "none") => ~last.warned

\* C4 witness: an add_element onto a buffer with nonzero samples that meets none
\* of them: no warning, and the waveform is on the buffer
C4_Witness ==
    /\ Added
    /\ ~last.warned
    /\ \E c \in Cells : Old(c[1], c[2]) # 0
    /\ \E c \in Cells : New(c[1], c[2]) # 0 /\ Res(c[1], c[2]) = New(c[1], c[2])

\* the add_element calls on channel c that returned, in call order
Elems(c) ==
    SelectSeq(log, LAMBDA e : e.op = "add_element" /\ e.name = c /\ e.raised = "none")

\* C5: when exactly two elements A and B have been added to a channel, the
\* buffer is what adding B and then A to the fresh buffer gives, and every
\* sample where A or B is not NaN is the plain float sum of the two samples.
C5_OrderIndependent ==
    \A c \in DOMAIN channels :
        LET A == Elems(c)[1].unit
            B == Elems(c)[2].unit
        IN  Len(Elems(c)) = 2 =>
              /\ channels[c] = Accumulate(Accumulate(zeros_like(t), B), A)
              /\ \A i \in Idx : \A k \in 1..BroadcastWidth(A, B) :
                    (IsReal(At(A, i, k)) \/ IsReal(At(B, i, k))) =>
                        channels[c][i][k] =
                            IF IsNaN(At(A, i, k)) \/ IsNaN(At(B, i, k)) THEN NaN
                            ELSE At(A, i, k) + At(B, i, k)

\* C5 witness: two different elements of different widths on one channel, with
\* a cell where both are nonzero numbers
C5_Witness ==
    \E c \in DOMAIN channels :
        /\ Len(Elems(c)) = 2
        /\ Elems(c)[1].unit # Elems(c)[2].unit
        /\ Width(Elems(c)[1].unit) # Width(Elems(c)[2].unit)
        /\ \E i \in Idx :
              /\ IsReal(Elems(c)[1].unit[i][1]) /\ Elems(c)[1].unit[i][1] # 0
              /\ IsReal(Elems(c)[2].unit[i][1]) /\ Elems(c)[2].unit[i][1] # 0

\* C6: add_element with a name not given at construction raises KeyError,
\* creates no channel and leaves every buffer as it was.
C6_UnknownChannel ==
    /\ DOMAIN channels = Range(order)
    /\ (last.op = "add_element" /\ last.name \notin Range(order)) =>
          /\ last.raised = "KeyError"
          /\ channels = last.before

\* C6 witness: add_element with an unknown name on a sequence whose channel
\* already holds an element
C6_Witness ==
    /\ last.op = "add_element"
    /\ last.name \notin Range(order)
    /\ \E c \in DOMAIN channels : channels[c] # zeros_like(t)

\* C7: the first element added to a channel, with K amplitudes, leaves a buffer
\* of shape (N, K) whose column k is ampl[k] times the callback's waveform.
C7_BroadcastColumns ==
    (Added /\ Len(Elems(last.name)) = 1) =>
        /\ Len(channels[last.name]) = GridLen
        /\ \A i \in Idx :
              /\ Len(channels[last.name][i]) = Len(last.ampl)
              /\ \A k \in 1..Len(last.ampl) :
                    channels[last.name][i][k] = FMul(last.ampl[k], callback(last.cb, t)[i])

\* C7 witness: a first element with two amplitudes whose columns differ
C7_Witness ==
    /\ Added /\ Len(Elems(last.name)) = 1
    /\ Len(last.ampl) = 2
    /\ \E i \in Idx : channels[last.name][i][1] # channels[last.name][i][2]

(* ======================= the baseline of a row: C8 ===================== *)

\* up to date figure of a call that returned
Plotted == fig.called /\ fig.raised = "none" /\ fig.ncalls = NCalls

\* the rows of the layout the last plot_scheme was given
FigRows == Ax2Channel(fig.layout, order)

\* the rows fed by a single channel, and the buffer of such a row
SingleRows == {r \in 1..fig.nrows : Len(FigRows[r].channels) = 1}

RowBuf(r) == channels[FigRows[r].channels[1]]

\* The baseline is visible at a grid position when the position is a point of
\* one of the baseline lines plot_scheme draws on the row.
BaselineAt(r) == UNION {Range(fig.baseline[r][q]) : q \in 1..Len(fig.baseline[r])}

Hidden(r) == Idx \ BaselineAt(r)

\* the positions where the channel of row r holds a value in some variant,
\* for a given reading of the absent value
ActiveIn(r, Absent(_)) ==
    {i \in Idx : \E k \in 1..Width(RowBuf(r)) : ~Absent(RowBuf(r)[i][k])}

IsRun(A) == A # {} /\ A = MinOf(A)..MaxOf(A)

\* the statement of C8 for one reading of the absent value
DilatedRegion(Absent(_)) ==
    Plotted => \A r \in SingleRows :
        LET A == ActiveIn(r, Absent) IN
        /\ A = {} => BaselineAt(r) = Idx
        /\ IsRun(A) => Hidden(r) = {p \in Idx : MinOf(A) - 1 <= p /\ p <= MaxOf(A) + 1}

C8_WitnessEdge ==
    /\ Plotted
    /\ \E r \in SingleRows :
          LET A == ActiveIn(r, IsZero) IN
          /\ Width(RowBuf(r)) = 1
          /\ IsRun(A) /\ MinOf(A) = 1 /\ MaxOf(A) >= 3 /\ MaxOf(A) < GridLen
          /\ {1, MaxOf(A)} \subseteq BaselineAt(r)
          /\ Hidden(r) = 2..(MaxOf(A) - 1)

(* ======================= the baseline path: C9 ========================= *)

\* The baseline is visible at grid position p when the path draws to the
\* vertex of p (code LINETO), invisible when it jumps there (code MOVETO);
\* the vertex of p follows the leading vertex (0, 0).
Visible(p) == path_out.codes[p + 1] = "LINETO"

PathBuilt == path_out.called /\ path_out.raised = "none"

AllSamples == UNION {Samples(channels[c]) : c \in DOMAIN channels}

\* C10 as stated: every row gets the y-limit padding_factor * (global min,
\* global max) over the samples of all channels (here in hundredths).
C10_PaddedGlobalExtrema ==
    (Plotted /\ NaN \notin AllSamples) =>
        \A r \in 1..fig.nrows :
            fig.ylim[r] = << PaddingHundredths * MinOf(AllSamples),
                             PaddingHundredths * MaxOf(AllSamples) >>

\* every amplitude of every annotation of the sequence
AnnoAmpls ==
    UNION {UNION {Range(anno[c][j].ampl) : j \in 1..Len(anno[c])} : c \in DOMAIN anno}

\* the values the y-limit must contain, in hundredths: 0, the padded samples of the
\* channels without a NaN, and the annotation amplitudes as they are
YlimValues ==
    {0}
    \cup {PaddingHundredths * v :
             v \in UNION {Samples(channels[c]) :
                             c \in {d \in DOMAIN channels : NaN \notin Samples(channels[d])}}}
    \cup {100 * a : a \in AnnoAmpls}

\* C10 amended: every row of the layout gets the same y-limit, the smallest and
\* the largest of: 0, padding_factor times each sample of the channels of the
\* sequence that hold no NaN, and each annotation amplitude (not padded); when
\* the two are equal (both 0) the rows get (-0.05, 0.05) instead.
C10_SharedYlim ==
    Plotted =>
        /\ Len(fig.ylim) = fig.nrows
        /\ \A r \in 1..fig.nrows :
              IF MinOf(YlimValues) = MaxOf(YlimValues)
              THEN fig.ylim[r] = <<-5, 5>>
              ELSE fig.ylim[r] = << MinOf(YlimValues), MaxOf(YlimValues) >>

\* C10 witness for the degenerate range: a plotted sequence whose samples and
\* annotations give the pair (0, 0)
C10_WitnessFlat ==
    Plotted /\ fig.nrows >= 1 /\ YlimValues = {0} /\ fig.ylim[1] = <<-5, 5>>

\* C10 witness: a figure with more rows than channels, of a sequence with a
\* negative sample, a positive sample and an annotation above the samples
C10_Witness ==
    /\ Plotted
    /\ fig.nrows > Cardinality(DOMAIN channels)
    /\ \E v \in AllSamples : v < 0
    /\ \E a \in AnnoAmpls : \A v \in AllSamples : 100 * a > PaddingHundredths * v
    /\ fig.ylim[fig.nrows][1] < 0

(* ======================= the trapezoid: C11 ============================ *)

\* the fraction v equals n / d
FracIs(v, n, d) == v[1] * d = n * v[2]

\* C11: for s < f <= d the trapezoid is 0 up to s, (x - s)/(f - s) on (s, f]
\* (1 at f), 1 on (f, d], 1 - (x - d)/(f - s) on (d, d + (f - s)] (0 at the
\* end), and 0 after it.
C11_TrapezoidShape ==
    LET s == trap_in.t_start
        f == trap_in.t_flat_out
        d == trap_in.t_ramp_down
    IN  (trap_out.called /\ s < f /\ f <= d) =>
            /\ Len(trap_out.x) = GridLen
            /\ \A i \in Idx :
                  /\ trap_out.x[i][2] > 0
                  /\ t[i] <= s => FracIs(trap_out.x[i], 0, 1)
                  /\ (s < t[i] /\ t[i] <= f) => FracIs(trap_out.x[i], t[i] - s, f - s)
                  /\ t[i] = f => FracIs(trap_out.x[i], 1, 1)
                  /\ (f < t[i] /\ t[i] <= d) => FracIs(trap_out.x[i], 1, 1)
                  /\ (d < t[i] /\ t[i] <= d + (f - s))
                        => FracIs(trap_out.x[i], (f - s) - (t[i] - d), f - s)
                  /\ t[i] = d + (f - s) => FracIs(trap_out.x[i], 0, 1)
                  /\ t[i] > d + (f - s) => FracIs(trap_out.x[i], 0, 1)

\* C11 witness: a trapezoid with a sample strictly inside each ramp, a sample
\* on the flat top after f, and its last sample, 0, on the grid
C11_Witness ==
    LET s == trap_in.t_start
        f == trap_in.t_flat_out
        d == trap_in.t_ramp_down
    IN  /\ trap_out.called /\ s < f /\ f < d
        /\ \E i \in Idx : s < t[i] /\ t[i] < f /\ 0 < trap_out.x[i][1]
                          /\ trap_out.x[i][1] < trap_out.x[i][2]
        /\ \E i \in Idx : f < t[i] /\ t[i] <= d /\ trap_out.x[i] = <<1, 1>>
        /\ \E i \in Idx : d < t[i] /\ t[i] < d + (f - s) /\ 0 < trap_out.x[i][1]
                          /\ trap_out.x[i][1] < trap_out.x[i][2]
        /\ \E i \in Idx : t[i] = d + (f - s)

(* ======================= the composer: C12 - C14 ======================= *)

\* C12 as stated: after plot_scheme every row carries its own layout key as
\* its label, also when the layout has more rows than the sequence has channels.
C12_RowsLabelled ==
    (fig.called /\ fig.raised = "none") =>
        /\ Len(fig.labels) = Len(FigRows)
        /\ \A r \in 1..Len(FigRows) : fig.labels[r] = FigRows[r].label

\* an operation that returned or raised between the two states
Step(op) == log' # log /\ last'.op = op

\* C13: no step changes the time grid; add_element on channel c changes neither
\* the buffer of another channel nor an annotation list; add_annotation and
\* plot_scheme change no channel buffer.
C13_Frame ==
    [][ /\ t' = t
        /\ DOMAIN channels' = DOMAIN channels
        /\ Step("add_element") =>
              /\ anno' = anno
              /\ \A c \in DOMAIN channels :
                    c # last'.name => channels'[c] = channels[c]
        /\ Step("add_annotation") => channels' = channels
        /\ fig' # fig => (channels' = channels /\ anno' = anno) ]_vars

\* C13 witness: an add_element changed its own channel while another channel
\* held an element, and the sequence was plotted after it
C13_Witness ==
    /\ Added
    /\ channels[last.name] # last.before[last.name]
    /\ \E c \in DOMAIN channels :
          /\ c # last.name
          /\ channels[c] = last.before[c]
          /\ \E i \in Idx : \E k \in 1..Width(channels[c]) : ~IsZero(channels[c][i][k])
    /\ fig.called /\ fig.ncalls = NCalls

\* C14 as stated: for a layout of R >= 1 rows that names only channels of the
\* sequence, plot_scheme completes with exactly R drawing surfaces, whatever
\* the number of channels.
C14_LayoutDefinesRows ==
    (fig.called /\ Len(FigRows) >= 1 /\ RowsError(FigRows, channels) = "none") =>
        /\ fig.raised = "none"
        /\ fig.nrows = Len(FigRows)

====
